---- MODULE Spec2Model ----
(***************************************************************************)
(* A5 whiteboard (src/script.js): pages with a resizable pixel buffer, a   *)
(* snapshot-based undo/redo history per page, named sessions in a durable  *)
(* store.  One action per event handler; an async handler is one action    *)
(* per stretch between two awaits.                                         *)
(*                                                                         *)
(* Abstractions.  A raster is [w, h, px]: the buffer's pixel dimensions    *)
(* and, for each cell of a coarse grid laid over the page in relative      *)
(* coordinates, what is drawn there ("none" = transparent, or a colour).   *)
(* A scaled redraw keeps the content of the cells and changes w and h.     *)
(* The device pixel ratio is counted in halves (2 = 1.0, 3 = 1.5).         *)
(***************************************************************************)
EXTENDS Integers, Sequences, FiniteSets, TLC

\* ------------------------------------------------------------ bounds
NCells == 1
MaxPages == 2
MaxStack == 2
MaxResizes == 1
MaxLoads == 1
MaxStrokes == 1
MaxSaves == 1

\* ------------------------------------------------- program constants
maxHistory == 40

Cells == 1..NCells
Tools == {"pen", "eraser"}
Colors == {"#111111"}
\* a text of the colour field that is no CSS colour
Rejected == {"not-a-colour"}
\* (stage width, stage height, devicePixelRatio in halves): the device held
\* upright, and turned on its side on a denser screen
Upright == <<416, 616, 2>>
Turned == <<616, 416, 3>>
\* a narrow stage, 148 wide inside its margin, and a stage smaller than the
\* least available area, on a browser zoomed out to a pixel ratio of 0.5
Narrow == <<164, 616, 2>>
Tiny == <<60, 80, 1>>
Stages == <<Upright, Turned, Narrow, Tiny>>
\* the display after k changes of it
DisplayAt(k) == Stages[(k % Len(Stages)) + 1]
Names == {"a"}

NoPage == 0
Blank == [c \in Cells |-> "none"]
EmptyPath == [pts |-> {}, lines |-> FALSE]

VARIABLES
  tool,         \* state.tool
  color,        \* state.color
  pages,        \* state.pages
  activeIndex,  \* state.activeIndex (0-based, -1 before the first selectPage)
  drawing,      \* state.drawing
  capture,      \* the page whose canvas holds the pointer capture, or NoPage
  btn,          \* [undo, redo]: UI.undoBtn.disabled, UI.redoBtn.disabled
  display,      \* how often the stage's box and devicePixelRatio have changed
  store,        \* the IndexedDB object store: session name -> record
  load,         \* the load click handler in flight, if any, and how many ran
  save,         \* the save click handler in flight, if any, and how many ran
  load2,        \* a load click handler started while the first was in flight
  last,         \* history variable: the event handled last
  anchor,       \* history variable: rasters before the last undo / clear
  run,          \* history variable: the strokes and undos of the current run
  ev,           \* history variable: the last eviction and the undos since
  strokes       \* history variable: how many strokes and clears were begun

vars == <<tool, color, pages, activeIndex, drawing, capture, btn, display, store, load, save,
          load2,
          last, anchor, run, ev, strokes>>

Max(a, b) == IF a > b THEN a ELSE b

\* ------------------------------------------------------------ canvas
\* mutant of RoundDpr: the product is cut off, not rounded
RoundDprFloor(css, d) == (css * d) \div 2

\* Math.round(css * dpr), dpr in halves
RoundDpr(css, d) == (css * d + 1) \div 2

EffectiveDpr(d) == Max(2, d[3])

\* The widths w from 100 to 1200 for which the double w / A5_ASPECT, with
\* A5_ASPECT the double nearest to 148/210, lies just below the integer
\* w * 210 / 148 (148 / A5_ASPECT = 209.99999999999997).  For no height h in
\* that range does h * A5_ASPECT differ from the exact product in its floor,
\* and the comparison targetH > availH agrees with the exact one.
BelowInteger == {148, 296, 592, 666, 1184}

\* Math.floor(targetW / A5_ASPECT)
FloorDivAspect(w) ==
  IF w \in BelowInteger THEN (w * 210) \div 148 - 1 ELSE (w * 210) \div 148

\* the largest 148:210 rectangle inside the stage minus 16, floored
FitSize(d) ==
  LET availW == Max(100, d[1] - 16)
      availH == Max(100, d[2] - 16)
  IN IF availW * 210 > availH * 148
       THEN [cssW |-> (availH * 148) \div 210, cssH |-> availH]
       ELSE [cssW |-> availW, cssH |-> FloorDivAspect(availW)]

GetImageData(page) == [w |-> page.w, h |-> page.h, px |-> page.px]

\* putImageData(snap, 0, 0): the snapshot's pixels are copied unscaled to the
\* top-left corner; a snapshot of other dimensions than the buffer leaves a
\* cell blank only where both are blank
PutImageData(page, snap) ==
  IF snap.w = page.w /\ snap.h = page.h
    THEN [page EXCEPT !.px = snap.px]
    ELSE [page EXCEPT !.px = [c \in Cells |->
            IF snap.px[c] = "none" /\ page.px[c] = "none" THEN "none" ELSE "garbled"]]

Gco(t) == IF t = "pen" THEN "source-over" ELSE "destination-out"

\* ctx.strokeStyle = value: a value that does not parse as a CSS colour is
\* ignored, the context keeps the stroke colour it had, and nothing is thrown
Parses(value) == value \in Colors
AssignStrokeStyle(old, value) == IF Parses(value) THEN value ELSE old

\* ctx.drawImage(src, 0, 0, w, h) over dst: composited with the context's
\* globalCompositeOperation (destination-out clears what the source covers)
DrawImage(dst, src, gco) ==
  [c \in Cells |->
     IF src[c] = "none" THEN dst[c]
     ELSE IF gco = "source-over" THEN src[c] ELSE "none"]

\* ctx.lineTo(pt): on an empty path it only sets the start point
LineTo(path, c) ==
  IF path.pts = {} THEN [pts |-> {c}, lines |-> FALSE]
  ELSE [pts |-> path.pts \cup {c}, lines |-> TRUE]

\* ctx.stroke(): renders the whole current path with the context's
\* compositing mode and stroke colour
Stroke(page) ==
  IF ~page.path.lines THEN page
  ELSE [page EXCEPT !.px = [c \in Cells |->
          IF c \in page.path.pts
            THEN (IF page.gco = "source-over" THEN page.strokeStyle ELSE "none")
            ELSE page.px[c]]]

\* ----------------------------------------------------------- history
GetActivePage(ps, ai) == IF ai + 1 \in DOMAIN ps THEN ai + 1 ELSE NoPage

\* mutant of UpdateUndoRedoButtons: the first page's stacks, not the active one's
ButtonsOfFirstPage(ps, ai) ==
  IF ps = <<>> THEN [undo |-> TRUE, redo |-> TRUE]
  ELSE [undo |-> ps[1].history = <<>>, redo |-> ps[1].future = <<>>]

\* updateUndoRedoButtons(): the two disabled flags
UpdateUndoRedoButtons(ps, ai) ==
  LET a == GetActivePage(ps, ai)
  IN IF a = NoPage THEN [undo |-> TRUE, redo |-> TRUE]
     ELSE [undo |-> ps[a].history = <<>>, redo |-> ps[a].future = <<>>]

\* variants of Shift with a slip: the bound is hit one entry early; the newest entry goes
ShiftEarly(s) == IF Len(s) >= maxHistory THEN Tail(s) ELSE s
ShiftNewest(s) == IF Len(s) > maxHistory THEN SubSeq(s, 1, maxHistory) ELSE s
\* one more with a slip: the bound is hit one entry late
ShiftLate(s) == IF Len(s) > maxHistory + 1 THEN Tail(s) ELSE s

\* history.shift() once the stack is longer than state.maxHistory
Shift(s) == IF Len(s) > maxHistory THEN Tail(s) ELSE s

\* mutant of PushHistory: the redo stack is never cleared
PushHistoryKeep(page, force) ==
  [page EXCEPT !.history = Shift(Append(page.history, GetImageData(page)))]

\* pushHistory(page, force)
PushHistory(page, force) ==
  [page EXCEPT !.history = Shift(Append(page.history, GetImageData(page))),
               !.future = IF force THEN page.future ELSE <<>>]

\* undo() on a page with an undo stack
UndoPage(page) ==
  LET n == Len(page.history)
      pushed == [page EXCEPT !.future = Shift(Append(page.future, GetImageData(page))),
                             !.history = SubSeq(page.history, 1, n - 1)]
  IN PutImageData(pushed, page.history[n])

\* mutant of RedoPage: the oldest undone state comes back, not the newest
RedoPageOldest(page) ==
  LET pushed == [page EXCEPT !.history = Shift(Append(page.history, GetImageData(page))),
                             !.future = Tail(page.future)]
  IN PutImageData(pushed, page.future[1])

\* redo() on a page with a redo stack
RedoPage(page) ==
  LET n == Len(page.future)
      pushed == [page EXCEPT !.history = Shift(Append(page.history, GetImageData(page))),
                             !.future = SubSeq(page.future, 1, n - 1)]
  IN PutImageData(pushed, page.future[n])

\* ------------------------------------------------------------ layout
\* A world is [pages, activeIndex, btn]; env is [tool, color, display].
UpdBtn(w) == [w EXCEPT !.btn = UpdateUndoRedoButtons(w.pages, w.activeIndex)]

\* mutant of NeedsResize: every pass resizes
NeedsResizeAlways(page, d) == TRUE

\* syncBufferToDisplay: needsResize
NeedsResize(page, d) ==
  \/ page.w # RoundDpr(page.cssW, EffectiveDpr(d))
  \/ page.h # RoundDpr(page.cssH, EffectiveDpr(d))
  \/ page.dpr # EffectiveDpr(d)

\* mutant of ResizeBuffer: the stacks are emptied with the buffer
ResizeBufferReset(page, preserveContent, env) ==
  [page EXCEPT !.dpr = EffectiveDpr(env.display),
               !.w = RoundDpr(page.cssW, EffectiveDpr(env.display)),
               !.h = RoundDpr(page.cssH, EffectiveDpr(env.display)),
               !.path = EmptyPath,
               !.strokeStyle = AssignStrokeStyle("#000000", env.color),
               !.gco = Gco(env.tool),
               !.history = <<>>,
               !.future = <<>>,
               !.px = IF preserveContent
                        THEN DrawImage(Blank, page.px, Gco(env.tool))
                        ELSE Blank]

\* syncBufferToDisplay from 'page.dpr = dpr' on: the buffer gets its new size,
\* which resets the context, and the content is redrawn if it is kept
ResizeBuffer(page, preserveContent, env) ==
  [page EXCEPT !.dpr = EffectiveDpr(env.display),
               !.w = RoundDpr(page.cssW, EffectiveDpr(env.display)),
               !.h = RoundDpr(page.cssH, EffectiveDpr(env.display)),
               !.path = EmptyPath,
               !.strokeStyle = AssignStrokeStyle("#000000", env.color),
               !.gco = Gco(env.tool),
               !.px = IF preserveContent
                        THEN DrawImage(Blank, page.px, Gco(env.tool))
                        ELSE Blank]

SyncBufferToDisplay(w, i, preserveContent, env) ==
  IF ~NeedsResize(w.pages[i], env.display) THEN w
  ELSE UpdBtn([w EXCEPT !.pages[i] = ResizeBuffer(w.pages[i], preserveContent, env)])

LayoutPageToFit(w, i, preserve, env) ==
  LET fit == FitSize(env.display)
  IN SyncBufferToDisplay(
       [w EXCEPT !.pages[i].cssW = fit.cssW, !.pages[i].cssH = fit.cssH],
       i, preserve, env)

\* ------------------------------------------------------------- pages
NewPage ==
  [w |-> 300, h |-> 150, px |-> Blank, cssW |-> 0, cssH |-> 0, dpr |-> 2,
   history |-> <<>>, future |-> <<>>, active |-> FALSE,
   gco |-> "source-over", strokeStyle |-> "#000000", path |-> EmptyPath]

PushHistoryW(w, i, force) ==
  UpdBtn([w EXCEPT !.pages[i] = PushHistory(w.pages[i], force)])

\* mutant of MakePage: the new page is put in front of the others
MakePageFront(w, env) ==
  LET w1 == [w EXCEPT !.pages = <<NewPage>> \o w.pages]
  IN PushHistoryW(LayoutPageToFit(w1, 1, FALSE, env), 1, TRUE)

\* makePage(): the new page is the last of w.pages
MakePage(w, env) ==
  LET w1 == [w EXCEPT !.pages = Append(w.pages, NewPage)]
      i == Len(w1.pages)
  IN PushHistoryW(LayoutPageToFit(w1, i, FALSE, env), i, TRUE)

\* makePage()'s return value: state.pages.length - 1
MakePageIndex(w, env) == Len(MakePage(w, env).pages) - 1

\* setTool's effect on the active page's context
ApplyTool(w, t) ==
  LET a == GetActivePage(w.pages, w.activeIndex)
  IN IF a = NoPage THEN w ELSE [w EXCEPT !.pages[a].gco = Gco(t)]

\* mutant of SelectPage: an index out of range is taken as it is
SelectPageAny(w, index, env) ==
  IF index < 0 \/ index >= Len(w.pages)
    THEN UpdBtn([w EXCEPT !.pages = [i \in DOMAIN w.pages |->
                                      [w.pages[i] EXCEPT !.active = FALSE]],
                          !.activeIndex = index])
  ELSE LET w1 == [w EXCEPT !.pages = [i \in DOMAIN w.pages |->
                                        [w.pages[i] EXCEPT !.active = (i = index + 1)]],
                           !.activeIndex = index]
           w2 == ApplyTool(w1, env.tool)
           a == index + 1
           w3 == [w2 EXCEPT !.pages[a].strokeStyle = AssignStrokeStyle(@, env.color)]
       IN UpdBtn(LayoutPageToFit(w3, a, TRUE, env))

\* mutant of SelectPage: the tool is not applied to the page that is selected
SelectPageStale(w, index, env) ==
  IF index < 0 \/ index >= Len(w.pages) THEN w
  ELSE LET w1 == [w EXCEPT !.pages = [i \in DOMAIN w.pages |->
                                        [w.pages[i] EXCEPT !.active = (i = index + 1)]],
                           !.activeIndex = index]
           a == index + 1
           w3 == [w1 EXCEPT !.pages[a].strokeStyle = AssignStrokeStyle(@, env.color)]
       IN UpdBtn(LayoutPageToFit(w3, a, TRUE, env))

\* selectPage(index)
SelectPage(w, index, env) ==
  IF index < 0 \/ index >= Len(w.pages) THEN w
  ELSE LET w1 == [w EXCEPT !.pages = [i \in DOMAIN w.pages |->
                                        [w.pages[i] EXCEPT !.active = (i = index + 1)]],
                           !.activeIndex = index]
           w2 == ApplyTool(w1, env.tool)
           a == index + 1
           w3 == [w2 EXCEPT !.pages[a].strokeStyle = AssignStrokeStyle(@, env.color)]
       IN UpdBtn(LayoutPageToFit(w3, a, TRUE, env))

World == [pages |-> pages, activeIndex |-> activeIndex, btn |-> btn]
Env == [tool |-> tool, color |-> color, display |-> DisplayAt(display)]

SetWorld(w) ==
  /\ pages' = w.pages
  /\ activeIndex' = w.activeIndex
  /\ btn' = w.btn

\* ------------------------------------------------------------ events
\* One pointer.  Its events reach the canvas that holds its capture
\* (setPointerCapture in onDown) and otherwise the canvas that is shown
\* (class "active").
Shown(p) == p \in DOMAIN pages /\ pages[p].active

Target(p) == IF capture # NoPage THEN p = capture ELSE Shown(p)

\* onDown
PointerDown(p, c) ==
  /\ capture = NoPage
  /\ Shown(p)
  /\ capture' = p
  /\ drawing' = TRUE
  /\ SetWorld(PushHistoryW(
       [World EXCEPT !.pages[p].path = [pts |-> {c}, lines |-> FALSE]], p, FALSE))
  /\ UNCHANGED <<tool, color, display, store, load, load2, save>>

\* mutant of PointerMove: the move is rendered whether or not a stroke is on
PointerMoveAlways(p, c) ==
  /\ Target(p)
  /\ pages' = [pages EXCEPT ![p] =
            Stroke([pages[p] EXCEPT
              !.strokeStyle = IF tool = "pen" THEN AssignStrokeStyle(@, color) ELSE @,
              !.path = LineTo(@, c)])]
  /\ UNCHANGED <<tool, color, activeIndex, drawing, capture, btn, display, store, load, load2, save>>

\* mutant of PointerMove: the stroke goes to the active page, not to the page
\* whose canvas got the event
PointerMoveActive(p, c) ==
  LET a == IF GetActivePage(pages, activeIndex) = NoPage THEN p
           ELSE GetActivePage(pages, activeIndex)
  IN /\ Target(p)
     /\ IF ~drawing THEN UNCHANGED pages
        ELSE pages' = [pages EXCEPT ![a] =
               Stroke([pages[a] EXCEPT
                 !.strokeStyle = IF tool = "pen" THEN AssignStrokeStyle(@, color) ELSE @,
                 !.path = LineTo(@, c)])]
     /\ UNCHANGED <<tool, color, activeIndex, drawing, capture, btn, display, store, load, load2, save>>

\* onMove
PointerMove(p, c) ==
  /\ Target(p)
  /\ IF ~drawing THEN UNCHANGED pages
     ELSE pages' = [pages EXCEPT ![p] =
            Stroke([pages[p] EXCEPT
              !.strokeStyle = IF tool = "pen" THEN AssignStrokeStyle(@, color) ELSE @,
              !.path = LineTo(@, c)])]
  /\ UNCHANGED <<tool, color, activeIndex, drawing, capture, btn, display, store, load, load2, save>>

\* mutant of EndStroke: a snapshot is pushed when the stroke ends as well
EndStrokeSnap(p, c) ==
  /\ Target(p)
  /\ IF ~drawing THEN UNCHANGED <<pages, drawing, btn>>
     ELSE /\ pages' = [pages EXCEPT ![p] =
                 PushHistory(Stroke([pages[p] EXCEPT !.path = LineTo(@, c)]), FALSE)]
          /\ btn' = UpdateUndoRedoButtons(pages', activeIndex)
          /\ drawing' = FALSE
  /\ capture' = NoPage
  /\ UNCHANGED <<tool, color, activeIndex, display, store, load, load2, save>>

\* endStroke (pointerup, pointercancel, pointerleave)
EndStroke(p, c) ==
  /\ Target(p)
  /\ IF ~drawing THEN UNCHANGED <<pages, drawing>>
     ELSE /\ pages' = [pages EXCEPT ![p] = Stroke([pages[p] EXCEPT !.path = LineTo(@, c)])]
          /\ drawing' = FALSE
  /\ capture' = NoPage
  /\ UNCHANGED <<tool, color, activeIndex, btn, display, store, load, load2, save>>

\* mutant of Undo: the current raster is pushed on the redo stack before the
\* guard on the undo stack
UndoPushFirst ==
  LET a == GetActivePage(pages, activeIndex)
  IN /\ IF a = NoPage THEN UNCHANGED <<pages, activeIndex, btn>>
        ELSE IF pages[a].history = <<>>
          THEN SetWorld([World EXCEPT !.pages[a].future =
                           Shift(Append(@, GetImageData(pages[a])))])
        ELSE SetWorld(UpdBtn([World EXCEPT !.pages[a] = UndoPage(pages[a])]))
     /\ UNCHANGED <<tool, color, drawing, capture, display, store, load, load2, save>>

\* undo()
Undo ==
  LET a == GetActivePage(pages, activeIndex)
      noop == a = NoPage \/ pages[a].history = <<>>
  IN /\ IF noop THEN UNCHANGED <<pages, activeIndex, btn>>
        ELSE SetWorld(UpdBtn([World EXCEPT !.pages[a] = UndoPage(pages[a])]))
     /\ UNCHANGED <<tool, color, drawing, capture, display, store, load, load2, save>>

\* redo()
Redo ==
  LET a == GetActivePage(pages, activeIndex)
      noop == a = NoPage \/ pages[a].future = <<>>
  IN /\ IF noop THEN UNCHANGED <<pages, activeIndex, btn>>
        ELSE SetWorld(UpdBtn([World EXCEPT !.pages[a] = RedoPage(pages[a])]))
     /\ UNCHANGED <<tool, color, drawing, capture, display, store, load, load2, save>>

\* clearActivePage(): clearRect of the whole buffer
ClearActivePage(w) ==
  LET a == GetActivePage(w.pages, w.activeIndex)
  IN IF a = NoPage THEN w ELSE [w EXCEPT !.pages[a].px = Blank]

\* pushHistory(page): 'const { canvas, history } = page' throws a TypeError
\* when page is null
PushHistoryThrows(a) == a = NoPage

\* clearBtn click: clearActivePage(); pushHistory(getActivePage()).
\* Without an active page pushHistory(null) throws and the handler ends.
Clear ==
  LET a == GetActivePage(pages, activeIndex)
  IN /\ IF a = NoPage THEN UNCHANGED <<pages, activeIndex, btn>>
        ELSE SetWorld(PushHistoryW(ClearActivePage(World), a, FALSE))
     /\ UNCHANGED <<tool, color, drawing, capture, display, store, load, load2, save>>

\* addPageBtn click: makePage(); selectPage(idx)
AddPage ==
  LET w1 == MakePage(World, Env)
  IN /\ SetWorld(SelectPage(w1, MakePageIndex(World, Env), Env))
     /\ UNCHANGED <<tool, color, drawing, capture, display, store, load, load2, save>>

\* selectPage(index)
SelectPageEv(index) ==
  /\ SetWorld(SelectPage(World, index, Env))
  /\ UNCHANGED <<tool, color, drawing, capture, display, store, load, load2, save>>

\* setTool(t)
SetTool(t) ==
  /\ tool' = t
  /\ SetWorld(ApplyTool(World, t))
  /\ UNCHANGED <<color, drawing, capture, display, store, load, load2, save>>

\* test.strokeStyle = cssColor on the scratch context: the setter throws for
\* no value, so the catch branch of trySetStrokeStyle is never entered
StrokeStyleThrows(cssColor) == FALSE

\* trySetStrokeStyle(cssColor): its return value
TrySetStrokeStyle(cssColor) == ~StrokeStyleThrows(cssColor)

\* colorHex change, colour wheel pick: trySetStrokeStyle(cssColor)
SetColor(col) ==
  LET a == GetActivePage(pages, activeIndex)
  IN /\ color' = IF StrokeStyleThrows(col) THEN color ELSE col
     /\ pages' = IF ~StrokeStyleThrows(col) /\ a # NoPage /\ tool = "pen"
                   THEN [pages EXCEPT ![a].strokeStyle = AssignStrokeStyle(@, col)]
                   ELSE pages
     /\ UNCHANGED <<tool, activeIndex, drawing, capture, btn, display, store, load, load2, save>>

\* the stage or the pixel ratio changes and the resize handler runs:
\* layoutActivePage(true)
LayoutActivePage(w, env) ==
  LET a == GetActivePage(w.pages, w.activeIndex)
  IN IF a = NoPage THEN w ELSE LayoutPageToFit(w, a, TRUE, env)

Resize ==
  /\ display' = display + 1
  /\ SetWorld(LayoutActivePage(World, [Env EXCEPT !.display = DisplayAt(display + 1)]))
  /\ UNCHANGED <<tool, color, drawing, capture, store, load, load2, save>>

\* the resize handler runs with the k-th stage in place; with k the stage
\* that is there already it is a second pass for one change (ResizeObserver
\* and the window's resize event both call layoutActivePage)
ResizeTo(k) ==
  /\ display' = k
  /\ SetWorld(LayoutActivePage(World, [Env EXCEPT !.display = DisplayAt(k)]))
  /\ UNCHANGED <<tool, color, drawing, capture, store, load, load2, save>>

\* ----------------------------------------------------------- export
\* Texts of the session-name field, character by character.
Space == " "
NameTexts == {<<>>, <<Space>>, <<"a">>, <<Space, "a", Space>>, <<"a", Space, "b">>}

RECURSIVE TrimStart(_)
TrimStart(s) == IF s # <<>> /\ Head(s) = Space THEN TrimStart(Tail(s)) ELSE s

RECURSIVE TrimEnd(_)
TrimEnd(s) ==
  IF s # <<>> /\ s[Len(s)] = Space THEN TrimEnd(SubSeq(s, 1, Len(s) - 1)) ELSE s

\* mutant of Trim: the text is taken as it is typed
TrimNone(s) == s

\* String.prototype.trim
Trim(s) == TrimEnd(TrimStart(s))

\* `${UI.sessionName.value.trim() || 'session'}_page_${state.activeIndex + 1}.png`
DownloadName(text, ai) ==
  (IF Trim(text) = <<>> THEN <<"session">> ELSE Trim(text))
    \o <<"_page_", ToString(ai + 1), ".png">>

\* nothing is downloaded
NoFile == [download |-> <<>>, w |-> 0, h |-> 0, px |-> Blank]

\* exportActivePNG(): the file handed to the browser; the temporary canvas
\* is new, so its drawImage paints over the white fill
ExportActivePNG(w, text) ==
  LET a == GetActivePage(w.pages, w.activeIndex)
  IN IF a = NoPage THEN NoFile
     ELSE [download |-> DownloadName(text, w.activeIndex),
           w |-> w.pages[a].w, h |-> w.pages[a].h,
           px |-> DrawImage([c \in Cells |-> "#ffffff"], w.pages[a].px, "source-over")]

\* exportBtn click: nothing of the program's state is assigned
ExportClick(text) ==
  UNCHANGED <<tool, color, pages, activeIndex, drawing, capture, btn, display,
              store, load, load2, save>>

\* ------------------------------------------------------------- load
Idle(n) == [pc |-> "idle", n |-> n]

\* a guard that lets every name pass
NameNeverRequired(sessionId) == FALSE

\* saveSession, loadSession: if (!sessionId) throw new Error('Session name required')
SessionNameRequired(sessionId) == sessionId = ""

\* loadBtn click up to the first await of loadSession; an empty name throws
LoadClick(name) ==
  /\ load.pc = "idle"
  /\ load' = IF SessionNameRequired(name) THEN load
             ELSE [pc |-> "get", n |-> load.n + 1, name |-> name]
  /\ UNCHANGED <<tool, color, pages, activeIndex, drawing, capture, btn, display, store, save, load2>>

\* drawBlobOnCanvas, img.onload: clearRect, then drawImage scaled to the buffer
DrawBlobOnCanvas(page, blob) ==
  [page EXCEPT !.px = DrawImage(Blank, blob.px, page.gco)]

\* restoreFromRecord from its start to the first await
RestoreStart(w, rec, env) ==
  LET w0 == [w EXCEPT !.pages = <<>>]
  IN IF rec.pages = <<>> THEN SelectPage(w0, 0, env) ELSE MakePage(w0, env)

\* restoreFromRecord sets state.pages = []: the page another load in flight
\* is decoding for stays with that load, and is a page of the list no more
Detached(frame) ==
  IF frame.pc = "decode" THEN [frame EXCEPT !.idx = NoPage] ELSE frame

\* mutant of LoadGot: the pages are wiped before the result is looked at
LoadGotWipe ==
  /\ load.pc = "get"
  /\ IF load.name \notin DOMAIN store
       THEN /\ load' = Idle(load.n)
            /\ SetWorld(UpdBtn([World EXCEPT !.pages = <<>>]))
            /\ capture' = NoPage
            /\ load2' = Detached(load2)
       ELSE LET rec == store[load.name]
                w1 == RestoreStart(World, rec, Env)
            IN /\ SetWorld(w1)
               /\ capture' = NoPage
               /\ load2' = Detached(load2)
               /\ load' = IF rec.pages = <<>> THEN Idle(load.n)
                          ELSE [pc |-> "decode", n |-> load.n, rec |-> rec, i |-> 1,
                                idx |-> Len(w1.pages)]
  /\ UNCHANGED <<tool, color, drawing, display, store, save>>

\* the store's get completes: not found, or restoreFromRecord begins
LoadGot ==
  /\ load.pc = "get"
  /\ IF load.name \notin DOMAIN store
       THEN /\ load' = Idle(load.n)
            /\ UNCHANGED <<pages, activeIndex, btn, capture, load2>>
       ELSE LET rec == store[load.name]
                w1 == RestoreStart(World, rec, Env)
            IN /\ SetWorld(w1)
               /\ capture' = NoPage
               /\ load2' = Detached(load2)
               /\ load' = IF rec.pages = <<>> THEN Idle(load.n)
                          ELSE [pc |-> "decode", n |-> load.n, rec |-> rec, i |-> 1,
                                idx |-> Len(w1.pages)]
  /\ UNCHANGED <<tool, color, drawing, display, store, save>>

\* restoreFromRecord from the end of one decode to the next await or the end.
\* With idx = NoPage the page object the loop holds is no longer in
\* state.pages (a later load has emptied the list): what is drawn and pushed
\* on it leaves the list alone, and only the buttons are refreshed.
RestoreStep(w, rec, i, idx, env) ==
  LET drawn == IF idx = NoPage THEN w
               ELSE [w EXCEPT !.pages[idx] =
                       [DrawBlobOnCanvas(w.pages[idx], rec.pages[i]) EXCEPT
                          !.history = <<>>, !.future = <<>>]]
      laid == IF idx = NoPage THEN UpdBtn(w)
              ELSE LayoutPageToFit(PushHistoryW(drawn, idx, TRUE), idx, TRUE, env)
  IN IF i < Len(rec.pages) THEN MakePage(laid, env) ELSE SelectPage(laid, 0, env)

\* mutant of DecodeDone: the loop goes on drawing on the first page of the list
DecodeDoneFirst ==
  /\ load.pc = "decode"
  /\ LET w1 == RestoreStep(World, load.rec, load.i, load.idx, Env)
     IN /\ SetWorld(w1)
        /\ load' = IF load.i < Len(load.rec.pages)
                     THEN [load EXCEPT !.i = @ + 1, !.idx = 1]
                     ELSE Idle(load.n)
  /\ UNCHANGED <<tool, color, drawing, capture, display, store, save, load2>>

\* an image of the load is decoded: restoreFromRecord goes on to its next
\* await or to its end
DecodeDone ==
  /\ load.pc = "decode"
  /\ LET w1 == RestoreStep(World, load.rec, load.i, load.idx, Env)
     IN /\ SetWorld(w1)
        /\ load' = IF load.i < Len(load.rec.pages)
                     THEN [load EXCEPT !.i = @ + 1, !.idx = Len(w1.pages)]
                     ELSE Idle(load.n)
  /\ UNCHANGED <<tool, color, drawing, capture, display, store, save, load2>>

\* loadBtn click while the first load awaits a decode: the handler has no
\* guard, so a second loadSession begins
OverlapClick(name) ==
  /\ load.pc = "decode" /\ load2.pc = "idle"
  /\ load2' = IF SessionNameRequired(name) THEN load2
              ELSE [pc |-> "get", n |-> load2.n + 1, name |-> name]
  /\ UNCHANGED <<tool, color, pages, activeIndex, drawing, capture, btn, display,
                 store, load, save>>

\* the second load's get completes: restoreFromRecord empties state.pages,
\* and the page the first load is drawing on is a page of the list no more
OverlapGot ==
  /\ load2.pc = "get"
  /\ IF load2.name \notin DOMAIN store
       THEN /\ load2' = Idle(load2.n)
            /\ UNCHANGED <<pages, activeIndex, btn, capture, load>>
       ELSE LET rec == store[load2.name]
                w1 == RestoreStart(World, rec, Env)
            IN /\ SetWorld(w1)
               /\ capture' = NoPage
               /\ load' = Detached(load)
               /\ load2' = IF rec.pages = <<>> THEN Idle(load2.n)
                           ELSE [pc |-> "decode", n |-> load2.n, rec |-> rec, i |-> 1,
                                 idx |-> Len(w1.pages)]
  /\ UNCHANGED <<tool, color, drawing, display, store, save>>

\* an image of the second load is decoded
OverlapDecodeDone ==
  /\ load2.pc = "decode"
  /\ LET w1 == RestoreStep(World, load2.rec, load2.i, load2.idx, Env)
     IN /\ SetWorld(w1)
        /\ load2' = IF load2.i < Len(load2.rec.pages)
                      THEN [load2 EXCEPT !.i = @ + 1, !.idx = Len(w1.pages)]
                      ELSE Idle(load2.n)
  /\ UNCHANGED <<tool, color, drawing, capture, display, store, load, save>>

\* the image cannot be decoded: its error event has no listener
\* (drawBlobOnCanvas sets onload only), so the promise that restoreFromRecord
\* awaits is never settled
DecodeFailed ==
  /\ load.pc = "decode"
  /\ load' = [load EXCEPT !.pc = "pending"]
  /\ UNCHANGED <<tool, color, pages, activeIndex, drawing, capture, btn, display,
                 store, save, load2>>

\* ------------------------------------------------------------- save
SaveIdle(n, res) == [pc |-> "idle", n |-> n, res |-> res]

\* pageToBlobOpaque: the page drawn over white on a canvas of the buffer's
\* size; the drawing happens in the promise's executor, when it is called
PageToBlobOpaque(page) ==
  [w |-> page.w, h |-> page.h,
   px |-> [c \in Cells |-> IF page.px[c] = "none" THEN "#ffffff" ELSE page.px[c]]]

\* saveBtn click up to the await of the encoded blobs
SaveClick(name) ==
  /\ save.pc = "idle"
  /\ save' = [pc |-> "encode", n |-> save.n + 1, name |-> name,
              blobs |-> [i \in DOMAIN pages |-> PageToBlobOpaque(pages[i])]]
  /\ UNCHANGED <<tool, color, pages, activeIndex, drawing, capture, btn, display,
                 store, load, load2>>

\* the blobs are encoded: saveSession begins, up to its await of openDB;
\* an empty name throws
SaveEncoded ==
  /\ save.pc = "encode"
  /\ save' = IF SessionNameRequired(save.name)
               THEN SaveIdle(save.n, "Session name required")
               ELSE [save EXCEPT !.pc = "open"]
  /\ UNCHANGED <<tool, color, pages, activeIndex, drawing, capture, btn, display,
                 store, load, load2>>

\* the database is open: the readwrite transaction is created, then
\* saveSession awaits the FileReaders of the blobs
SaveOpened ==
  /\ save.pc = "open"
  /\ save' = [pc |-> "read", n |-> save.n, name |-> save.name, blobs |-> save.blobs,
              tx |-> "active"]
  /\ UNCHANGED <<tool, color, pages, activeIndex, drawing, capture, btn, display,
                 store, load, load2>>

\* the transaction, with no request placed on it, finishes when the task
\* that created it has ended
TxFinish ==
  /\ save.pc = "read" /\ save.tx = "active"
  /\ save' = [save EXCEPT !.tx = "finished"]
  /\ UNCHANGED <<tool, color, pages, activeIndex, drawing, capture, btn, display,
                 store, load, load2>>

\* the record saveSession puts
Record(name, blobs) == [id |-> name, pages |-> blobs]

\* mutant of SaveRead: saveSession resolves once the put is placed
SaveReadResolve ==
  /\ save.pc = "read"
  /\ save' = IF save.tx = "active"
               THEN SaveIdle(save.n, "Saved")
               ELSE SaveIdle(save.n, "TransactionInactiveError")
  /\ UNCHANGED <<tool, color, pages, activeIndex, drawing, capture, btn, display,
                 store, load, load2>>

\* the FileReaders are done: store.put(record), which throws on a transaction
\* that is no longer active; otherwise saveSession awaits tx.oncomplete
SaveRead ==
  /\ save.pc = "read"
  /\ save' = IF save.tx = "active"
               THEN [pc |-> "put", n |-> save.n, name |-> save.name,
                     blobs |-> save.blobs]
               ELSE SaveIdle(save.n, "TransactionInactiveError")
  /\ UNCHANGED <<tool, color, pages, activeIndex, drawing, capture, btn, display,
                 store, load, load2>>

\* store.put under the key path 'id': the record takes the place of the one
\* with the same id
Put(st, rec) ==
  [n \in DOMAIN st \cup {rec.id} |-> IF n = rec.id THEN rec ELSE st[n]]

\* mutant of SaveCommitted: the pages are flattened when the write commits
SaveCommittedLate ==
  /\ save.pc = "put"
  /\ store' = Put(store, Record(save.name,
                                [i \in DOMAIN pages |-> PageToBlobOpaque(pages[i])]))
  /\ save' = SaveIdle(save.n, "Saved")
  /\ UNCHANGED <<tool, color, pages, activeIndex, drawing, capture, btn, display, load, load2>>

\* tx.oncomplete: the write is committed, saveSession resolves and the
\* handler ends
SaveCommitted ==
  /\ save.pc = "put"
  /\ store' = Put(store, Record(save.name, save.blobs))
  /\ save' = SaveIdle(save.n, "Saved")
  /\ UNCHANGED <<tool, color, pages, activeIndex, drawing, capture, btn, display, load, load2>>

\* ------------------------------------------------------ initial state
\* script.js top level: makePage(); selectPage(0)
InitWorld(env) ==
  SelectPage(MakePage([pages |-> <<>>, activeIndex |-> -1,
                       btn |-> [undo |-> FALSE, redo |-> FALSE]], env), 0, env)

\* a session saved earlier: a page with a stroke and an empty page,
\* flattened on white
SavedPages ==
  << [w |-> 400, h |-> 567, px |-> [c \in Cells |-> "#111111"]],
     [w |-> 400, h |-> 567, px |-> [c \in Cells |-> "#ffffff"]] >>

InitProgram ==
  /\ tool = "pen"
  /\ color = "#111111"
  /\ display = 0
  /\ drawing = FALSE
  /\ capture = NoPage
  /\ store = [n \in Names |-> [id |-> n, pages |-> SavedPages]]
  /\ load = Idle(0)
  /\ load2 = Idle(0)
  /\ save = SaveIdle(0, "")
  /\ LET w == InitWorld([tool |-> "pen", color |-> "#111111", display |-> DisplayAt(0)])
     IN /\ pages = w.pages
        /\ activeIndex = w.activeIndex
        /\ btn = w.btn

\* --------------------------------------------------- history variables
Raster(ps, ai) ==
  LET a == GetActivePage(ps, ai)
  IN IF a = NoPage THEN <<>> ELSE <<GetImageData(ps[a])>>

Ev(op, flag) == [op |-> op, flag |-> flag]

NoAnchor == [u |-> <<>>, ur |-> <<>>, c |-> <<>>, cu |-> <<>>]
NoRun == [bases |-> <<>>, u |-> 0]
NoEv == [old |-> <<>>, kept |-> <<>>, u |-> 0]

InitGhost ==
  /\ last = Ev("init", FALSE)
  /\ anchor = NoAnchor
  /\ run = NoRun
  /\ ev = NoEv
  /\ strokes = 0

UndoNoop == LET a == GetActivePage(pages, activeIndex)
            IN a = NoPage \/ pages[a].history = <<>>
RedoNoop == LET a == GetActivePage(pages, activeIndex)
            IN a = NoPage \/ pages[a].future = <<>>

\* anchor: u = the raster before the undo just done; ur = the raster before
\* the undo whose redo was just done; c = the raster before the clear just
\* done; cu = the raster before the clear whose undo was just done
AnchorNext(op) ==
  IF op = "undo" /\ ~UndoNoop
    THEN [NoAnchor EXCEPT !.u = Raster(pages, activeIndex), !.cu = anchor.c]
  ELSE IF op = "redo" /\ ~RedoNoop
    THEN [NoAnchor EXCEPT !.ur = anchor.u]
  ELSE IF op = "clear" /\ GetActivePage(pages, activeIndex) # NoPage
    THEN [NoAnchor EXCEPT !.c = Raster(pages, activeIndex)]
  ELSE NoAnchor

Observe(op, flag) ==
  /\ last' = Ev(op, flag)
  /\ anchor' = AnchorNext(op)
  /\ UNCHANGED <<run, ev, strokes>>

LastN(s) == IF Len(s) > maxHistory THEN Tail(s) ELSE s

\* run: the rasters before each pointerdown of the strokes drawn in a row
\* (the last maxHistory of them), and how many undos followed them
RunNext(op) ==
  IF op = "down"
    THEN [bases |-> LastN(Append(IF run.u = 0 THEN run.bases ELSE <<>>,
                                 Raster(pages, activeIndex)[1])),
          u |-> 0]
  ELSE IF op \in {"move", "end"}
    THEN (IF run.u = 0 THEN run ELSE NoRun)
  ELSE IF op = "undo" /\ ~drawing /\ run.u < Len(run.bases)
    THEN [run EXCEPT !.u = @ + 1]
  ELSE NoRun

\* ev: the snapshot the last push evicted, the stack it left, and how many
\* undos followed
EvNext(op) ==
  LET a == GetActivePage(pages, activeIndex)
  IN IF op = "down"
       THEN (IF Len(pages[a].history) = maxHistory
               THEN [old |-> <<pages[a].history[1]>>,
                     kept |-> Append(Tail(pages[a].history), GetImageData(pages[a])),
                     u |-> 0]
               ELSE NoEv)
     ELSE IF op \in {"move", "end"}
       THEN (IF ev.u = 0 THEN ev ELSE NoEv)
     ELSE IF op = "undo" /\ ev.old # <<>> /\ ev.u < maxHistory
       THEN [ev EXCEPT !.u = @ + 1]
     ELSE NoEv

ObserveRun(op) ==
  /\ run' = RunNext(op)
  /\ ev' = EvNext(op)
  /\ UNCHANGED <<last, anchor, strokes>>

\* run, for one gesture: bases = the raster at its pointerdown; u = 0 while it
\* lasts, 1 once it has ended, 2 once the undo that follows has been done.
\* Only moves, undo, redo and resize are followed inside the gesture.
GestureNext(op) ==
  IF op = "down" THEN [bases |-> Raster(pages, activeIndex), u |-> 0]
  ELSE IF drawing /\ run.bases # <<>>
    THEN (IF op = "end" THEN [run EXCEPT !.u = 1]
          ELSE IF op \in {"move", "undo", "redo", "resize"} THEN run
          ELSE NoRun)
  ELSE IF op = "undo" /\ run.u = 1 THEN [run EXCEPT !.u = 2]
  ELSE NoRun

ObserveGesture(op) ==
  /\ run' = GestureNext(op)
  /\ UNCHANGED <<last, anchor, ev, strokes>>

\* ------------------------------------------------------ specification
\* One page: strokes, clear, undo, redo, tool, colour, resize.
StackRoom(p) == p \in DOMAIN pages /\ Len(pages[p].history) < MaxStack

Next ==
  \/ \E c \in Cells : StackRoom(1) /\ PointerDown(1, c)
                      /\ Observe("down", pages[1].future # <<>>)
  \/ \E c \in Cells : PointerMove(1, c) /\ Observe("move", ~drawing)
  \/ \E c \in Cells : EndStroke(1, c) /\ Observe("end", ~drawing)
  \/ Undo /\ Observe("undo", UndoNoop)
  \/ Redo /\ Observe("redo", RedoNoop)
  \/ StackRoom(1) /\ Clear /\ Observe("clear", FALSE)
  \/ \E t \in Tools : SetTool(t) /\ Observe("tool", FALSE)
  \/ \E col \in Colors : SetColor(col) /\ Observe("color", FALSE)
  \/ display < MaxResizes /\ Resize /\ Observe("resize", FALSE)

Init == InitProgram /\ InitGhost

Spec == Init /\ [][Next]_vars

\* The events of Spec, followed gesture by gesture.
NextGesture ==
  \/ \E c \in Cells : StackRoom(1) /\ PointerDown(1, c) /\ ObserveGesture("down")
  \/ \E c \in Cells : PointerMove(1, c) /\ ObserveGesture("move")
  \/ \E c \in Cells : EndStroke(1, c) /\ ObserveGesture("end")
  \/ Undo /\ ObserveGesture("undo")
  \/ Redo /\ ObserveGesture("redo")
  \/ StackRoom(1) /\ Clear /\ ObserveGesture("clear")
  \/ \E t \in Tools : SetTool(t) /\ ObserveGesture("tool")
  \/ \E col \in Colors : SetColor(col) /\ ObserveGesture("color")
  \/ display < MaxResizes /\ Resize /\ ObserveGesture("resize")

SpecGesture == Init /\ [][NextGesture]_vars

\* No click, key, resize or load completion is handled while a stroke is
\* being drawn.
Quiet == ~drawing

\* A long session on one page: whole pen strokes, undo and redo, to the depth
\* of the history bound.
NextDeep ==
  \/ \E c \in Cells : PointerDown(1, c) /\ ObserveRun("down")
  \/ \E c \in Cells : PointerMove(1, c) /\ ObserveRun("move")
  \/ \E c \in Cells : EndStroke(1, c) /\ ObserveRun("end")
  \/ Quiet /\ Undo /\ ObserveRun("undo")
  \/ Quiet /\ Redo /\ ObserveRun("redo")

SpecDeep == Init /\ [][NextDeep]_vars

\* Several pages and a load, with the pen and whole strokes.
Begun ==
  /\ strokes < MaxStrokes /\ strokes' = strokes + 1
  /\ UNCHANGED <<last, anchor, run, ev>>

Rest == UNCHANGED <<strokes, last, anchor, run, ev>>

\* the event handled last, for the events of the page list and the sessions
Seen(op, flag) ==
  /\ last' = Ev(op, flag)
  /\ UNCHANGED <<strokes, anchor, run, ev>>

OutOfRange(index) == index < 0 \/ index >= Len(pages)

NextPages ==
  \/ \E p \in 1..(MaxPages + 1), c \in Cells : PointerDown(p, c) /\ Begun
  \/ \E p \in 1..(MaxPages + 1), c \in Cells : PointerMove(p, c) /\ Rest
  \/ \E p \in 1..(MaxPages + 1), c \in Cells : EndStroke(p, c) /\ Rest
  \/ Quiet /\ Undo /\ Rest
  \/ Quiet /\ Redo /\ Rest
  \/ Quiet /\ Clear /\ Begun
  \/ Quiet /\ Len(pages) < MaxPages /\ AddPage /\ Seen("add", FALSE)
  \/ Quiet /\ \E index \in -1..Len(pages) :
                SelectPageEv(index) /\ Seen("select", OutOfRange(index))
  \/ Quiet /\ display < MaxResizes /\ Resize /\ Rest
  \/ Quiet /\ \E name \in Names \cup {"", "b"} :
                load.n < MaxLoads /\ LoadClick(name) /\ Seen("load", name = "")
  \/ Quiet /\ LoadGot /\ Seen("got", load.name \notin DOMAIN store)
  \/ Quiet /\ DecodeDone /\ Seen("decoded", load.i = Len(load.rec.pages))

SpecPages == Init /\ [][NextPages]_vars

\* Sessions: strokes with either tool on the page shown, save and load.
NextStore ==
  \/ \E p \in 1..(MaxPages + 1), c \in Cells : PointerDown(p, c) /\ Begun
  \/ \E p \in 1..(MaxPages + 1), c \in Cells : PointerMove(p, c) /\ Rest
  \/ \E p \in 1..(MaxPages + 1), c \in Cells : EndStroke(p, c) /\ Rest
  \/ Quiet /\ Undo /\ Rest
  \/ Quiet /\ (\E t \in Tools : SetTool(t)) /\ Rest
  \/ Quiet /\ \E name \in Names \cup {"", "b"} :
                save.n < MaxSaves /\ SaveClick(name) /\ Seen("save", name = "")
  \/ Quiet /\ SaveEncoded /\ Seen("encoded", save.name = "")
  \/ Quiet /\ SaveOpened /\ Rest
  \/ Quiet /\ TxFinish /\ Rest
  \/ Quiet /\ SaveRead /\ Rest
  \/ Quiet /\ SaveCommitted /\ Seen("committed", save.name \in DOMAIN store)
  \/ Quiet /\ \E name \in Names \cup {"", "b"} :
                load.n < MaxLoads /\ LoadClick(name) /\ Seen("load", name = "")
  \/ Quiet /\ LoadGot /\ Seen("got", load.name \notin DOMAIN store)
  \/ Quiet /\ DecodeDone /\ Seen("decoded", load.i = Len(load.rec.pages))

SpecStore == Init /\ [][NextStore]_vars

\* Layout: the stage changes among all of Stages, with pages added and
\* selected, and strokes of either tool.
NextLayout ==
  \/ \E p \in 1..(MaxPages + 1), c \in Cells : PointerDown(p, c) /\ Begun
  \/ \E p \in 1..(MaxPages + 1), c \in Cells : PointerMove(p, c) /\ Rest
  \/ \E p \in 1..(MaxPages + 1), c \in Cells : EndStroke(p, c) /\ Rest
  \/ Quiet /\ \E k \in 0..(Len(Stages) - 1) :
                ResizeTo(k) /\ Seen("layout", k = display)
  \/ Quiet /\ Len(pages) < MaxPages /\ AddPage /\ Seen("add", FALSE)
  \/ Quiet /\ \E index \in 0..(Len(pages) - 1) :
                SelectPageEv(index) /\ Seen("select", FALSE)
  \/ Quiet /\ (\E t \in Tools : SetTool(t)) /\ Seen("tool", FALSE)

SpecLayout == Init /\ [][NextLayout]_vars

\* Export: the page shown is exported under every text of the name field,
\* between strokes, undo and redo, added and selected pages, a resize and
\* the steps of a load.
NextExport ==
  \/ \E p \in 1..(MaxPages + 1), c \in Cells : PointerDown(p, c) /\ Begun
  \/ \E p \in 1..(MaxPages + 1), c \in Cells : PointerMove(p, c) /\ Rest
  \/ \E p \in 1..(MaxPages + 1), c \in Cells : EndStroke(p, c) /\ Rest
  \/ Quiet /\ Len(pages) < MaxPages /\ AddPage /\ Seen("add", FALSE)
  \/ Quiet /\ \E index \in 0..(Len(pages) - 1) :
                SelectPageEv(index) /\ Seen("select", FALSE)
  \/ Quiet /\ \E name \in Names :
                load.n < MaxLoads /\ LoadClick(name) /\ Seen("load", FALSE)
  \/ Quiet /\ LoadGot /\ Seen("got", FALSE)
  \/ Quiet /\ DecodeDone /\ Seen("decoded", FALSE)
  \/ Quiet /\ Undo /\ Seen("undo", FALSE)
  \/ Quiet /\ Redo /\ Seen("redo", FALSE)
  \/ Quiet /\ display < MaxResizes /\ Resize /\ Seen("layout", FALSE)
  \/ \E text \in NameTexts :
       /\ ExportClick(text)
       /\ Seen("export", [text |-> text, file |-> ExportActivePNG(World, text)])

SpecExport == Init /\ [][NextExport]_vars

\* A load whose images decode or fail to decode, with the page list and the
\* tool in use meanwhile.  The browser delivers the result of the get and the
\* load or error event of every image.
LoadSteps == (DecodeFailed \/ LoadGot \/ DecodeDone) /\ Rest

NextLoad ==
  \/ (\E name \in Names \cup {"b"} : load.n < MaxLoads /\ LoadClick(name)) /\ Rest
  \/ LoadGot /\ Rest
  \/ DecodeDone /\ Rest
  \/ DecodeFailed /\ Rest
  \/ Len(pages) < MaxPages /\ AddPage /\ Rest
  \/ (\E index \in 0..(Len(pages) - 1) : SelectPageEv(index)) /\ Rest
  \/ (\E t \in Tools : SetTool(t)) /\ Rest
  \/ Undo /\ Rest
  \/ Redo /\ Rest

SpecLoad == Init /\ [][NextLoad]_vars /\ WF_vars(LoadSteps)

\* Two loads that overlap: the load button is pressed again while the first
\* load awaits a decode.  Both find their record; no page is added by hand
\* and the pen stays on.
NextOverlap ==
  \/ (\E name \in Names : load.n < MaxLoads /\ LoadClick(name)) /\ Rest
  \/ LoadGot /\ Rest
  \/ DecodeDone /\ Rest
  \/ (\E name \in Names : load2.n < MaxLoads /\ OverlapClick(name)) /\ Rest
  \/ OverlapGot /\ Rest
  \/ OverlapDecodeDone /\ Rest
  \/ (\E index \in 0..(Len(pages) - 1) : SelectPageEv(index)) /\ Rest
  \/ Undo /\ Rest
  \/ Redo /\ Rest

SpecOverlap == Init /\ [][NextOverlap]_vars

\* A save pressed while a load is restoring its pages.  Pages are added by
\* hand only before the load; last.flag keeps how many pages there were when
\* the load emptied the list.
NextSaveInLoad ==
  \/ load.n = 0 /\ Len(pages) < MaxPages /\ AddPage /\ Rest
  \/ (\E index \in 0..(Len(pages) - 1) : SelectPageEv(index)) /\ Rest
  \/ (\E t \in Tools : SetTool(t)) /\ Rest
  \/ (\E name \in Names : load.n < MaxLoads /\ LoadClick(name)) /\ Rest
  \/ LoadGot /\ Seen("got", Len(pages))
  \/ DecodeDone /\ Rest
  \/ load.pc = "decode" /\ save.n < MaxSaves /\ SaveClick("b") /\ Rest
  \/ SaveEncoded /\ Rest
  \/ SaveOpened /\ Rest
  \/ TxFinish /\ Rest
  \/ SaveRead /\ Rest
  \/ SaveCommitted /\ Rest

SpecSaveInLoad == Init /\ [][NextSaveInLoad]_vars

\* Drawing while a save is pending: strokes with either tool, clear, undo
\* and redo between the save click and the commit.  last.flag keeps the
\* pages over white as they were at the click.
Flattened ==
  [i \in DOMAIN pages |->
     [w |-> pages[i].w, h |-> pages[i].h,
      px |-> [c \in Cells |-> IF pages[i].px[c] = "none" THEN "#ffffff"
                               ELSE pages[i].px[c]]]]

NextSaveDraw ==
  \/ \E c \in Cells : StackRoom(1) /\ PointerDown(1, c) /\ Rest
  \/ \E c \in Cells : PointerMove(1, c) /\ Rest
  \/ \E c \in Cells : EndStroke(1, c) /\ Rest
  \/ Quiet /\ StackRoom(1) /\ Clear /\ Rest
  \/ Quiet /\ Undo /\ Rest
  \/ Quiet /\ Redo /\ Rest
  \/ Quiet /\ (\E t \in Tools : SetTool(t)) /\ Rest
  \/ Quiet /\ save.n < MaxSaves /\ SaveClick("b") /\ Seen("save", Flattened)
  \/ SaveEncoded /\ Rest
  \/ SaveOpened /\ Rest
  \/ TxFinish /\ Rest
  \/ SaveRead /\ Rest
  \/ SaveCommitted /\ Rest

SpecSaveDraw == Init /\ [][NextSaveDraw]_vars

\* Clear at any moment: with pages added and selected, undo and redo, and
\* during the steps of a load.  last.flag tells whether the clear handler
\* ended in an exception.
NextClear ==
  \/ Len(pages) < MaxPages /\ AddPage /\ Seen("add", FALSE)
  \/ (\E index \in 0..(Len(pages) - 1) : SelectPageEv(index)) /\ Seen("select", FALSE)
  \/ Undo /\ Seen("undo", FALSE)
  \/ Redo /\ Seen("redo", FALSE)
  \/ (\E name \in Names : load.n < MaxLoads /\ LoadClick(name)) /\ Seen("load", FALSE)
  \/ LoadGot /\ Seen("got", FALSE)
  \/ DecodeDone /\ Seen("decoded", FALSE)
  \/ /\ \A p \in DOMAIN pages : Len(pages[p].history) < MaxStack
     /\ Clear
     /\ Seen("clear", PushHistoryThrows(GetActivePage(pages, activeIndex)))

SpecClear == Init /\ [][NextClear]_vars

\* Two pages and one pointer, with nothing held back while a stroke is on:
\* a page can be added or selected, cleared, undone and redone between the
\* pointerdown on another page and the end of that gesture.
NextOwn ==
  \/ \E p \in 1..MaxPages, c \in Cells : StackRoom(p) /\ PointerDown(p, c) /\ Rest
  \/ \E p \in 1..MaxPages, c \in Cells : PointerMove(p, c) /\ Rest
  \/ \E p \in 1..MaxPages, c \in Cells : EndStroke(p, c) /\ Rest
  \/ Len(pages) < MaxPages /\ AddPage /\ Rest
  \/ (\E index \in 0..(Len(pages) - 1) : SelectPageEv(index)) /\ Rest
  \/ StackRoom(GetActivePage(pages, activeIndex)) /\ Clear /\ Rest
  \/ Undo /\ Rest
  \/ Redo /\ Rest
  \/ (\E t \in Tools : SetTool(t)) /\ Rest

SpecOwn == Init /\ [][NextOwn]_vars

\* The tool and the colour against everything that touches a page's context:
\* the page list, layout, undo and redo, and a load.  No strokes.
NextTool ==
  \/ (\E t \in Tools : SetTool(t)) /\ Rest
  \/ (\E col \in Colors \cup Rejected : SetColor(col)) /\ Rest
  \/ Undo /\ Rest
  \/ Redo /\ Rest
  \/ Len(pages) < MaxPages /\ AddPage /\ Rest
  \/ (\E index \in 0..(Len(pages) - 1) : SelectPageEv(index)) /\ Rest
  \/ display < MaxResizes /\ Resize /\ Rest
  \/ (\E name \in Names : load.n < MaxLoads /\ LoadClick(name)) /\ Rest
  \/ LoadGot /\ Rest
  \/ DecodeDone /\ Rest

SpecTool == Init /\ [][NextTool]_vars

\* -------------------------------------------------------------- claims
ActiveRaster == Raster(pages, activeIndex)

\* C1: N strokes in a row (N <= maxHistory) followed by k <= N undos leave the
\* active page's raster as it was before the pointerdown of the k-th last of
\* those strokes; with k = N, as it was before the first stroke.
C1_RoundTrip ==
  run.u >= 1 => ActiveRaster = <<run.bases[Len(run.bases) - run.u + 1]>>

\* forty strokes undone by forty undos, back from ink to the empty page
C1_Witness ==
  /\ Len(run.bases) = maxHistory
  /\ run.u = maxHistory
  /\ run.bases[1] # run.bases[maxHistory]
  /\ ActiveRaster = <<run.bases[1]>>

C2_UndoRedo == anchor.ur # <<>> => ActiveRaster = anchor.ur

\* an undo that changed the raster, then the redo
C2_Witness ==
  /\ anchor.ur # <<>>
  /\ last.op = "redo"
  /\ pages[1].history # <<>>
  /\ <<pages[1].history[Len(pages[1].history)]>> # ActiveRaster

\* C3: a stroke's pointerdown (and the push after a clear) empties the page's
\* redo stack, so that redo is a no-op and the redo control is disabled.
C3_StrokeClearsRedo ==
  last.op \in {"down", "clear"} =>
    /\ pages[1].future = <<>>
    /\ btn.redo
    /\ RedoNoop

\* a pointerdown on a page that had undone states to redo
C3_Witness == last.op = "down" /\ last.flag

Top(h) == h[Len(h)]

C7_ClearUndone == anchor.cu # <<>> => ActiveRaster = anchor.cu

\* C9: undo on an empty undo stack and redo on an empty redo stack change
\* neither the pages nor the controls.
C9_NoopFrame ==
  [][ ((Undo /\ UndoNoop) \/ (Redo /\ RedoNoop)) =>
        UNCHANGED <<pages, btn, activeIndex, drawing>> ]_vars

\* an undo found the undo stack empty
C9_Witness == last.op = "undo" /\ last.flag /\ pages[1].history = <<>>

\* C5: the undo control is disabled exactly when the active page's undo stack
\* is empty, the redo control exactly when its redo stack is empty; both are
\* disabled without an active page.
C5_Controls ==
  LET a == GetActivePage(pages, activeIndex)
  IN IF a = NoPage THEN btn.undo /\ btn.redo
     ELSE /\ btn.undo <=> pages[a].history = <<>>
          /\ btn.redo <=> pages[a].future = <<>>

\* the second page is active with everything undone, the first page is not
C5_Witness ==
  /\ Len(pages) = 2 /\ activeIndex = 1
  /\ pages[2].history = <<>> /\ pages[2].future # <<>>
  /\ pages[1].history # <<>> /\ pages[1].future = <<>>
  /\ btn.undo /\ ~btn.redo

Baselined(page) ==
  /\ page.history = <<GetImageData(page)>>
  /\ page.future = <<>>

\* C8 as stated: after createPage, and after a load has restored a page, the
\* page's undo stack is one snapshot equal to its raster and its redo stack
\* is empty.
C8_Baseline ==
  [][ /\ AddPage => Baselined(pages'[Len(pages')])
      /\ DecodeDone => Baselined(pages'[load.idx]) ]_vars

\* C10 as stated: with at least one page, activeIndex is a valid index and
\* the page there is the one page marked active.
C10_ActiveValid ==
  pages # <<>> =>
    /\ GetActivePage(pages, activeIndex) # NoPage
    /\ \A i \in DOMAIN pages : pages[i].active <=> i = activeIndex + 1

\* C11: selectPage with an index below 0 or not below the number of pages
\* changes nothing: not the active index, the marks, the controls, nor any
\* page's raster, display size, buffer dimensions or stacks.
C11_SelectOutOfRange ==
  [][ \A index \in -1..MaxPages + 1 :
        (OutOfRange(index) /\ SelectPageEv(index)) =>
           UNCHANGED <<pages, activeIndex, btn, tool, color, drawing>> ]_vars

\* selectPage was called out of range while two pages existed, the second
\* one active
C11_Witness ==
  /\ last = Ev("select", TRUE)
  /\ Len(pages) = 2 /\ activeIndex = 1 /\ pages[2].active

\* C12: makePage appends one page at the end of the list and returns its
\* index, the number of pages before the call; the active index and the
\* existing pages (raster, stacks and all) are as before.
C12_MakePageFrame ==
  LET w1 == MakePage(World, Env)
  IN /\ Len(w1.pages) = Len(pages) + 1
     /\ SubSeq(w1.pages, 1, Len(pages)) = pages
     /\ w1.activeIndex = activeIndex
     /\ MakePageIndex(World, Env) = Len(pages)

\* a page was added after a stroke on the first page
C12_Witness ==
  /\ last = Ev("add", FALSE)
  /\ Len(pages) = 2
  /\ Len(pages[1].history) = 2
  /\ pages[1].px # Blank

\* C13: a save or a load with an empty name ends with the error 'Session
\* name required' before the store is opened; pages, active index, controls
\* and store stay as they were, and the handler is idle again.
C13_EmptyName ==
  [][ /\ LoadClick("") =>
           UNCHANGED <<pages, activeIndex, btn, store, load, load2>>
      /\ SaveClick("") =>
           UNCHANGED <<pages, activeIndex, btn, store>>
      /\ (save.pc = "encode" /\ save.name = "" /\ SaveEncoded) =>
           /\ UNCHANGED <<pages, activeIndex, btn, store>>
           /\ save' = SaveIdle(save.n, "Session name required")
    ]_vars

\* a save with an empty name has failed, then a load with an empty name, and
\* a stroke is being drawn after both
C13_Witness ==
  /\ save.pc = "idle" /\ save.res = "Session name required"
  /\ last = Ev("load", TRUE)
  /\ drawing

\* C14: a load under a name that has no record ends as 'not found': the
\* handler is idle again, and pages, active index, controls and store are
\* as they were, from the click to the end.
C14_NotFound ==
  [][ /\ (\E name \in {"a", "b"} : LoadClick(name)) =>
           UNCHANGED <<pages, activeIndex, btn, store>>
      /\ (load.pc = "get" /\ load.name \notin DOMAIN store /\ LoadGot) =>
           /\ UNCHANGED <<pages, activeIndex, btn, store>>
           /\ load' = Idle(load.n)
    ]_vars

\* a load has not found its record; the page holds a stroke
C14_Witness ==
  /\ last = Ev("got", TRUE)
  /\ load.pc = "idle"
  /\ Len(pages) = 1 /\ pages[1].px # Blank /\ pages[1].active

White(px) == [c \in Cells |-> IF px[c] = "none" THEN "#ffffff" ELSE px[c]]

LoadsSaved ==
  /\ load.pc = "decode" /\ load.rec.id = "b"
  /\ load.i = Len(load.rec.pages)
  /\ DecodeDone

C17_LoadReplaces ==
  [][ (load.pc = "decode" /\ load.i = Len(load.rec.pages) /\ DecodeDone) =>
        /\ Len(pages') = Len(load.rec.pages)
        /\ activeIndex' = 0
        /\ \A i \in DOMAIN pages' : pages'[i].active <=> i = 1
    ]_vars

\* the buffer of page p is round(display size x ratio) for the stage d
Fits(p, d) ==
  LET availW == IF d[1] - 16 > 100 THEN d[1] - 16 ELSE 100
      availH == IF d[2] - 16 > 100 THEN d[2] - 16 ELSE 100
      ratio == IF d[3] > 2 THEN d[3] ELSE 2
  IN /\ pages[p].cssW = FitSize(d).cssW
     /\ pages[p].cssH = FitSize(d).cssH
     /\ pages[p].cssW <= availW /\ pages[p].cssH <= availH
     /\ 2 * pages[p].w - pages[p].cssW * ratio \in {0, 1}
     /\ 2 * pages[p].h - pages[p].cssH * ratio \in {0, 1}

\* C18 as stated: every page's buffer is round(display size x ratio) for the
\* stage and the pixel ratio of the moment, and records that ratio.
C18_EveryPageFits ==
  \A p \in DOMAIN pages :
    /\ Fits(p, DisplayAt(display))
    /\ pages[p].dpr = DisplayAt(display)[3]

\* C18 as amended: every page's buffer is round(its own display size x its
\* recorded ratio); the page at the active index has the display size of
\* the present stage and the present ratio, taken as 1 when it is below 1.
C18_ActivePageFits ==
  /\ \A p \in DOMAIN pages :
       /\ 2 * pages[p].w - pages[p].cssW * pages[p].dpr \in {0, 1}
       /\ 2 * pages[p].h - pages[p].cssH * pages[p].dpr \in {0, 1}
  /\ LET a == GetActivePage(pages, activeIndex)
     IN a # NoPage =>
          /\ Fits(a, DisplayAt(display))
          /\ pages[a].dpr = (IF DisplayAt(display)[3] > 2 THEN DisplayAt(display)[3] ELSE 2)

\* the stage has changed with two pages: the active one was laid out on an
\* odd display width at ratio 1.5, the other one keeps its old buffer
C18_Witness ==
  /\ last = Ev("layout", FALSE)
  /\ Len(pages) = 2 /\ activeIndex = 1
  /\ DisplayAt(display) = Turned
  /\ pages[2].w = 422 /\ pages[2].h = 600
  /\ pages[1].w = 400 /\ pages[1].h = 567

\* C19: a layout pass on a page that the pass before it has laid out for the
\* same stage and ratio changes nothing: raster, buffer, recorded ratio,
\* stacks and controls are as the first pass left them.  For every page,
\* every stage and both values of preserve.
C19_LayoutIdempotent ==
  \A i \in DOMAIN pages : \A k \in 0..(Len(Stages) - 1) : \A preserve \in BOOLEAN :
    LET env == [Env EXCEPT !.display = DisplayAt(k)]
        w1 == LayoutPageToFit(World, i, preserve, env)
    IN /\ LayoutPageToFit(w1, i, TRUE, env) = w1
       /\ LayoutPageToFit(w1, i, FALSE, env) = w1

\* the resize handler has run a second time for the same stage, on a page
\* with a stroke that an earlier pass has rescaled
C19_Witness ==
  /\ last = Ev("layout", TRUE)
  /\ DisplayAt(display) = Turned
  /\ Len(pages) = 1 /\ pages[1].px # Blank /\ pages[1].w = 422
  /\ Len(pages[1].history) = 2

\* the largest rectangle of ratio 148:210 inside the stage d less 16 each
\* way, floored, in exact arithmetic
LargestFit(d) ==
  LET W == d[1] - 16
      H == d[2] - 16
  IN IF W * 210 <= H * 148
       THEN [cssW |-> W, cssH |-> (W * 210) \div 148]
       ELSE [cssW |-> (H * 148) \div 210, cssH |-> H]

\* C20 as stated: the display size of the page laid out is the floored
\* largest rectangle of ratio 148:210 that fits the stage less its margin of
\* 16, so it is within that area.
C20_LargestFit ==
  LET a == GetActivePage(pages, activeIndex)
      d == DisplayAt(display)
  IN a # NoPage =>
       /\ pages[a].cssW = LargestFit(d).cssW
       /\ pages[a].cssH = LargestFit(d).cssH
       /\ pages[a].cssW <= d[1] - 16
       /\ pages[a].cssH <= d[2] - 16

\* a step that resizes the buffer of page p
Resized(p) ==
  /\ p \in DOMAIN pages /\ Len(pages') = Len(pages)
  /\ (pages'[p].w # pages[p].w \/ pages'[p].h # pages[p].h)

\* C21 as stated: a layout pass that resizes a page's buffer with its content
\* preserved leaves the drawing as it was, scaled to the new buffer: what is
\* drawn in each cell of the page is unchanged.
C21_ResizeKeepsDrawing ==
  [][ \A p \in 1..MaxPages : Resized(p) => pages'[p].px = pages[p].px ]_vars

\* C22: a pointermove or an end event (pointerup, pointercancel,
\* pointerleave) that arrives while state.drawing is false changes no page
\* (raster, stacks), not the flag and not the controls.
C22_StrayIgnored ==
  [][ (~drawing /\ \E c \in Cells : PointerMove(1, c) \/ EndStroke(1, c)) =>
        UNCHANGED <<pages, drawing, btn, activeIndex>> ]_vars

\* a move arrived with no stroke on, on a page that holds a stroke and whose
\* context is set to erase
C22_Witness ==
  /\ last = Ev("move", TRUE)
  /\ pages[1].px # Blank
  /\ pages[1].gco = "destination-out"
  /\ pages[1].path.lines

\* C23: whatever the sequence of tool and colour changes, added and selected
\* pages, resizes, undo, redo and a load, the context of the page at the
\* active index, and of every page that is shown, has the compositing mode
\* of the current tool.
C23_ToolApplied ==
  /\ \A p \in DOMAIN pages : pages[p].active => pages[p].gco = Gco(tool)
  /\ LET a == GetActivePage(pages, activeIndex)
     IN a # NoPage => pages[a].gco = Gco(tool)

\* the eraser is on, and the second page, shown now, erases, with a first
\* page beside it, a resize and a load behind
C23_Witness ==
  /\ tool = "eraser"
  /\ Len(pages) = 2 /\ activeIndex = 1 /\ pages[2].active
  /\ pages[2].gco = "destination-out"
  /\ display = 1
  /\ load.n = 1 /\ load.pc = "idle"

\* C24 as stated: setting a colour that the canvas rejects leaves state.color
\* and the stroke colour of every context as they were and is reported as a
\* failure; setting a colour it accepts makes that colour current and is
\* reported as a success.
C24_RejectedColourRefused ==
  [][ /\ \A col \in Rejected : SetColor(col) =>
            (color' = color /\ pages' = pages /\ ~TrySetStrokeStyle(col))
      /\ \A col \in Colors : SetColor(col) =>
            (color' = col /\ TrySetStrokeStyle(col)) ]_vars

\* the part of C24 on accepted colours, which holds
C24_AcceptedColourSet ==
  [][ \A col \in Colors : SetColor(col) => (color' = col /\ TrySetStrokeStyle(col)) ]_vars

\* b is t without the spaces at its two ends
IsTrimOf(b, t) ==
  \E i, j \in 0..Len(t) :
    /\ i + j <= Len(t)
    /\ b = SubSeq(t, i + 1, Len(t) - j)
    /\ \A k \in 1..i : t[k] = Space
    /\ \A k \in (Len(t) - j + 1)..Len(t) : t[k] = Space
    /\ b = <<>> \/ (b[1] # Space /\ b[Len(b)] # Space)

\* an export has just been handled
Exported == last' # last /\ last'.op = "export"

\* C25: an export changes nothing of the pages, their stacks or the page
\* list; with no active page no file is made; otherwise the file has the
\* active page's pixel size, shows the page over white, and is named by the
\* trimmed text of the name field, or 'session' when that is empty, followed
\* by _page_, the active index plus one, and .png.
C25_Export ==
  [][ Exported =>
        /\ UNCHANGED <<pages, activeIndex, btn, store>>
        /\ LET f == last'.flag.file
               t == last'.flag.text
               a == GetActivePage(pages, activeIndex)
           IN IF a = NoPage THEN f = NoFile
              ELSE /\ f.w = pages[a].w /\ f.h = pages[a].h
                   /\ \A c \in Cells :
                        f.px[c] = IF pages[a].px[c] = "none" THEN "#ffffff"
                                  ELSE pages[a].px[c]
                   /\ \E b \in {SubSeq(t, m, n) : m \in 1..(Len(t) + 1), n \in 0..Len(t)} :
                        /\ IsTrimOf(b, t)
                        /\ f.download =
                             (IF b = <<>> THEN <<"session">> ELSE b)
                               \o <<"_page_", ToString(activeIndex + 1), ".png">>
    ]_vars

\* the second page, with a stroke on it, has been exported under a name typed
\* between spaces
C25_Witness ==
  /\ last.op = "export"
  /\ last.flag.text = <<Space, "a", Space>>
  /\ last.flag.file.download = <<"a", "_page_", "2", ".png">>
  /\ activeIndex = 1 /\ Len(pages) = 2
  /\ pages[2].px # Blank
  /\ pages[2].history # <<>>

\* C26 as stated: whatever undo, redo or resize is handled between the
\* pointerdown and the end of a gesture, the first undo after the gesture has
\* ended brings back the pixels as they were at that pointerdown.
C26_GestureAtomic ==
  [][ (run.u = 1 /\ run'.u = 2) => pages'[1].px = run.bases[1].px ]_vars

\* C27 as stated: every snapshot on a page's undo or redo stack has the
\* pixel dimensions of that page's buffer as it is now, so that an undo or a
\* redo never restores a snapshot of another size, also after a resize.
C27_SnapshotsFit ==
  \A p \in DOMAIN pages :
    \A k \in 1..(Len(pages[p].history) + Len(pages[p].future)) :
      LET snap == (pages[p].history \o pages[p].future)[k]
      IN snap.w = pages[p].w /\ snap.h = pages[p].h

\* C28 as stated: a save with a name and at least one page places its put
\* while the transaction it opened is still active, so that the step after
\* the FileReaders is the put and never the error of a finished transaction.
C28_PutWhileActive ==
  [][ (save.pc = "read" /\ save'.pc # "read" /\ save.blobs # <<>>) =>
        (save.tx = "active" /\ save'.pc = "put") ]_vars

\* C29 as stated: a load that has found a record and begun to restore it
\* comes to its end, whether the images decode or not.
C29_LoadCompletes == (load.pc = "decode") ~> (load.pc = "idle")

\* what holds of it: the load comes to its end or is left pending by an
\* image that did not decode
C29_CompletesOrPending == (load.pc = "decode") ~> (load.pc \in {"idle", "pending"})

\* the pages are those of the record r, one for each stored buffer, in order
PagesOf(r) ==
  /\ Len(pages) = Len(r.pages)
  /\ \A i \in DOMAIN pages : pages[i].px = DrawImage(Blank, r.pages[i].px, "source-over")

\* C30 as stated: once two overlapping loads that both found a record have
\* come to their end, the page list holds the pages of one of the two
\* records, one page for each stored buffer in the stored order.
C30_NoMixture ==
  (load.pc = "idle" /\ load.n = 1 /\ load2.pc = "idle" /\ load2.n = 1)
    => \E name \in DOMAIN store : PagesOf(store[name])

\* a single load that found its record leaves the pages of that record
C30_OneLoad ==
  (load.pc = "idle" /\ load.n = 1 /\ load2.n = 0)
    => \E name \in DOMAIN store : PagesOf(store[name])

C33_ClearNeverFails == last.op = "clear" => ~last.flag

\* C34: on every page the undo stack and the redo stack together hold at
\* most maxHistory snapshots, so that the push of undo on the redo stack and
\* the push of redo on the undo stack never evict one.
C34_StacksTogetherBounded ==
  \A p \in DOMAIN pages :
    /\ Len(pages[p].history) + Len(pages[p].future) <= maxHistory
    /\ pages[p].future # <<>> => Len(pages[p].history) < maxHistory

\* a full undo stack has been undone to the end: the redo stack is full
C34_Witness ==
  /\ Len(pages[1].future) = maxHistory
  /\ pages[1].history = <<>>
  /\ ~drawing

\* the pixels of the snapshots of a page in the order of its timeline: the
\* undo stack from the oldest, the raster as it is, the redo stack from the
\* newest
Timeline(page) ==
  LET all == page.history \o <<GetImageData(page)>>
               \o [k \in 1..Len(page.future) |-> page.future[Len(page.future) + 1 - k]]
  IN [k \in DOMAIN all |-> all[k].px]

\* C35 as stated: an undo or a redo leaves the timeline of the active page
\* as it was and moves only the place of the current raster in it; no other
\* page is changed.
C35_TimelineFixed ==
  [][ (Undo \/ Redo) =>
        /\ Len(pages') = Len(pages)
        /\ \A p \in DOMAIN pages :
             IF p = GetActivePage(pages, activeIndex)
               THEN Timeline(pages'[p]) = Timeline(pages[p])
               ELSE pages'[p] = pages[p] ]_vars

\* C36: a layout pass on any page, for any stage, with the content kept or
\* not, with the buffer resized or not, leaves the undo stack and the redo
\* stack of every page as they are.
C36_LayoutKeepsStacks ==
  \A k \in 0..(Len(Stages) - 1), p \in DOMAIN pages, preserve \in BOOLEAN :
    LET w == LayoutPageToFit(World, p, preserve, [Env EXCEPT !.display = DisplayAt(k)])
    IN /\ Len(w.pages) = Len(pages)
       /\ w.activeIndex = activeIndex
       /\ \A q \in DOMAIN pages :
            /\ w.pages[q].history = pages[q].history
            /\ w.pages[q].future = pages[q].future

\* the resize handler has just run on a page with both stacks in use, and the
\* buffer is of another size now than the snapshot on the undo stack
C36_Witness ==
  /\ last = Ev("resize", FALSE)
  /\ pages[1].history # <<>> /\ pages[1].future # <<>>
  /\ pages[1].history[1].w # pages[1].w

\* every page but p is as it was
OnlyPage(p) ==
  /\ Len(pages') = Len(pages)
  /\ \A q \in DOMAIN pages : q # p => pages'[q] = pages[q]

\* C37: the events of a gesture change only the page whose canvas gets
\* them, and clear, undo and redo change only the active page: the raster
\* and the two stacks of every other page stay as they are.
C37_OnlyOwnPage ==
  [][ /\ \A p \in 1..MaxPages :
           (\E c \in Cells : PointerDown(p, c) \/ PointerMove(p, c) \/ EndStroke(p, c))
             => OnlyPage(p)
      /\ (Clear \/ Undo \/ Redo) => OnlyPage(GetActivePage(pages, activeIndex)) ]_vars

\* a stroke is being drawn on the first page, which has ink, while the second
\* page is the active one and has had an undo
C37_Witness ==
  /\ drawing /\ capture = 1
  /\ Len(pages) = 2 /\ activeIndex = 1
  /\ pages[1].px # Blank
  /\ pages[2].future # <<>>

\* C38: while two loads each await a decode, the two images are for two
\* different pages, each the page its own loop made last; a page that a later
\* load has removed from the list is awaited by the load that made it alone.
C38_OneDecodePerPage ==
  /\ load.pc = "decode" => load.idx \in DOMAIN pages \cup {NoPage}
  /\ load2.pc = "decode" => load2.idx \in DOMAIN pages \cup {NoPage}
  /\ (load.pc = "decode" /\ load2.pc = "decode") => load.idx # load2.idx

\* both loads await a decode for a page of the list
C38_Witness ==
  /\ load.pc = "decode" /\ load2.pc = "decode"
  /\ load.idx \in DOMAIN pages /\ load2.idx \in DOMAIN pages
====
